---- MODULE Spec2Model ----
(***************************************************************************)
(* nsi-aura: the reservation state machine, the GUI commands, the NSI      *)
(* callback handler and the job dispatcher, as one state machine.          *)
(*                                                                         *)
(* The database row of a reservation is res[r].  One action is one         *)
(* committed transaction of a request handler (the handlers that change a  *)
(* row are coroutines with no suspension point between their SELECT and    *)
(* their COMMIT; the creation inserts a row of its own) or one step of a   *)
(* job on the scheduler's thread pool: a job's transactions and its send   *)
(* are separate steps, between which handlers and other jobs can run.      *)
(* last records what the step just taken read, applied and answered.       *)
(*                                                                         *)
(* The topology poll is one action per tick: its transactions are the only *)
(* writers of the STP and SDP rows' ports, aliases and active flags, and   *)
(* one instance of it runs at a time.  stp and sdp are the two tables,     *)
(* poll records what the last tick was given and how it ended.             *)
(***************************************************************************)
EXTENDS Integers, Sequences, FiniteSets, TLC

\* ------------------------------------------------------------------ bounds
MaxRes == 2
MaxUuid == 5
MaxJobs == 2
MaxRepairs == 1
MaxPolls == 3
MaxTicks == 5

RIDS == 1..MaxRes
JIDS == 1..MaxJobs
NoId == 0

\* ------------------------------------------------- the state machine (fsm)
FsmStates ==
    { "ConnectionNew", "ConnectionProvisioned", "ConnectionActive", "ConnectionFailed",
      "ConnectionTerminated", "ConnectionReserveChecking", "ConnectionReserveHeld",
      "ConnectionReserveCommitting", "ConnectionReserveCommitted", "ConnectionProvisioning",
      "ConnectionReserveFailed", "ConnectionReserveTimeout", "ConnectionReserveAborting",
      "ConnectionReserveAborted", "ConnectionTerminating",
      "ConnectionReprovisionTerminating", "ConnectionReprovisionTerminated" }

\* states the callers use (util.py, reservations.py) that fsm.py does not declare
SpecStates == { "ConnectionReleasing", "ConnectionReleased", "ConnectionDeleted" }

States == FsmStates \cup SpecStates

\* the edges <<event, from, to>> of fsm.py
FsmTransitions ==
    { <<"nsi_send_reserve", "ConnectionNew", "ConnectionReserveChecking">>,
      <<"nsi_send_reserve", "ConnectionReserveAborted", "ConnectionReserveChecking">>,
      <<"nsi_send_reserve", "ConnectionReprovisionTerminated", "ConnectionReserveChecking">>,
      <<"nsi_receive_reserve_confirmed", "ConnectionReserveChecking", "ConnectionReserveHeld">>,
      <<"nsi_receive_reserve_failed", "ConnectionReserveChecking", "ConnectionReserveFailed">>,
      <<"nsi_receive_reserve_timeout", "ConnectionReserveHeld", "ConnectionReserveTimeout">>,
      <<"nsi_receive_reserve_abort_confirmed", "ConnectionReserveAborting", "ConnectionReserveAborted">>,
      <<"nsi_send_reserve_commit", "ConnectionReserveHeld", "ConnectionReserveCommitting">>,
      <<"nsi_receive_reserve_commit_confirmed", "ConnectionReserveCommitting", "ConnectionReserveCommitted">>,
      <<"nsi_send_provision", "ConnectionReserveCommitted", "ConnectionProvisioning">>,
      <<"nsi_receive_provision_confirmed", "ConnectionProvisioning", "ConnectionProvisioned">>,
      <<"nsi_receive_data_plane_up", "ConnectionProvisioned", "ConnectionActive">>,
      <<"nsi_receive_error_event", "ConnectionActive", "ConnectionFailed">>,
      <<"gui_connection_reprovision", "ConnectionFailed", "ConnectionReprovisionTerminating">>,
      <<"gui_terminate_connection", "ConnectionActive", "ConnectionTerminating">>,
      <<"gui_terminate_connection", "ConnectionFailed", "ConnectionTerminating">>,
      <<"nsi_receive_terminate_confirmed", "ConnectionTerminating", "ConnectionTerminated">>,
      <<"nsi_receive_terminate_confirmed", "ConnectionReprovisionTerminating", "ConnectionReprovisionTerminated">>,
      <<"gui_reserve_retry", "ConnectionReserveFailed", "ConnectionReserveAborting">>,
      <<"gui_reserve_retry", "ConnectionReserveTimeout", "ConnectionReserveAborting">> }

\* the edges of the events that job.py, frontend/nsi.py and
\* frontend/reservations.py fire and fsm.py does not define
SpecTransitions ==
    { <<"connection_error", "ConnectionReserveChecking", "ConnectionReserveFailed">>,
      <<"nsi_send_release", "ConnectionActive", "ConnectionReleasing">>,
      <<"nsi_receive_release_confirmed", "ConnectionReleasing", "ConnectionReleased">>,
      <<"nsi_receive_data_plane_down", "ConnectionReleased", "ConnectionReserveCommitted">>,
      <<"nsi_send_terminate", "ConnectionReserveTimeout", "ConnectionTerminating">>,
      <<"nsi_send_terminate", "ConnectionReserveCommitted", "ConnectionTerminating">>,
      <<"nsi_send_terminate", "ConnectionFailed", "ConnectionTerminating">>,
      <<"nsi_send_terminate", "ConnectionReserveFailed", "ConnectionTerminating">>,
      <<"gui_delete_connection", "ConnectionTerminated", "ConnectionDeleted">> }

TransitionTable == FsmTransitions \cup SpecTransitions

Events == { t[1] : t \in TransitionTable }

\* the target of event e in state s; the table has at most one per (e, s)
Target(e, s) == CHOOSE t \in States : <<e, s, t>> \in TransitionTable

\* mutant: the machine moves to some target of the event whatever the state
FireUnguarded(e, s) ==
    IF \E t \in States : <<e, s, t>> \in TransitionTable
    THEN [ok |-> TRUE, to |-> Target(e, s)]
    ELSE [ok |-> TRUE, to |-> CHOOSE t \in States : \E f \in States : <<e, f, t>> \in TransitionTable]

\* csm.<event>() on a machine hydrated with state s: the new state, or
\* TransitionNotAllowed (ok = FALSE) and the state kept
Fire(e, s) ==
    IF \E t \in States : <<e, s, t>> \in TransitionTable
    THEN [ok |-> TRUE, to |-> Target(e, s)]
    ELSE [ok |-> FALSE, to |-> s]

\* ------------------------------------------------------------ the program
VARIABLES
    res,        \* the reservation table: res[r] is the row with id r
    nextUuid,   \* uuid4(): the number of UUIDs that were stored or sent so far
    jobs,       \* the scheduler's jobs, each with its position in its body
    sent,       \* the requests the NSI provider has received and accepted
    last,       \* what the last handler or job step did (its response, its log)
    delivered,  \* per reservation: how far the provider's replies follow HappyReplies
    repairs,    \* the number of Fix State repairs so far
    stp,        \* the STP table: stp[i] is the row with id i
    sdp,        \* the SDP table: sdp[i] is the row with id i
    poll,       \* what the last topology poll was given and did
    polls,      \* the number of topology polls so far
    tick,       \* the interval job of the poll: its running instances, its ticks
    booked,     \* per reservation: the endpoint columns of its row
    validated,  \* the forms that passed the validation and wait for the handler
    pending     \* the accepted requests the provider has not yet been seen to answer

resVars == <<res, nextUuid, jobs, sent, last, delivered, repairs>>
topoVars == <<stp, sdp, poll, polls>>
otherVars == <<topoVars, tick, booked, validated, pending>>
vars == <<resVars, topoVars, tick, booked, validated, pending>>

\* the endpoint columns of a reservation row (sourceStpId, sourceVlan,
\* destStpId, destVlan), as the form of POST /create carries them; Unbooked
\* stands for the columns where the endpoints are left out of the model
Form(s, v, d, w) == [sourceSTP |-> s, sourceVlan |-> v, destSTP |-> d, destVlan |-> w]
Unbooked == Form(0, 0, 0, 0)

\* the connectionStates of a querySummarySyncConfirmed: lifecycleState,
\* reservationState, provisionState and dataPlaneStatus.active
ConnectionStates(l, r, p, a) ==
    [lifecycleState |-> l, reservationState |-> r, provisionState |-> p, active |-> a]
NoAnswer == ConnectionStates("none", "none", "none", "none")

\* the interval job of the poll before its first tick
NoTick == [running |-> 0, ticks |-> 0, skipped |-> 0]

NoRow == [state |-> "none", correlationId |-> NoId, connectionId |-> NoId]
IdleJob == [kind |-> "none", rid |-> NoId, pc |-> "idle", connectionId |-> NoId,
            state |-> "none", outcome |-> "none"]
NoLast == [op |-> "init", done |-> FALSE, rid |-> NoId, ev |-> "none", db |-> "none", from |-> "none",
           to |-> "none", edges |-> <<>>, http |-> 0, enq |-> {}, out |-> {},
           key |-> NoId, matched |-> NoId, rotated |-> FALSE, logged |-> "none",
           outcome |-> "none", kind |-> "none", form |-> Unbooked, detail |-> {},
           nsi |-> NoAnswer, should |-> "none"]

Exists(r) == res[r].state # "none"

\* the outcomes of one POST to the provider (nsi_util_post_soap and the parse
\* of the reply): delivered and answered, no connection, HTTP error status,
\* an answer that is not XML, an XML answer that holds a SOAP Fault
Outcomes == { "ok", "conn_error", "http_error", "non_xml", "fault" }

JobKinds == { "reserve", "reserveCommit", "provision", "release", "terminate" }

\* requests.ConnectionError and requests.HTTPError are OSErrors; the bare
\* Exception of a non-XML answer and the AttributeError of parsing a Fault
\* for its connectionId are not
IsOSError(o) == o \in { "conn_error", "http_error" }

\* a request as the provider sees it: committed says whether the row, with
\* the transition that authorised the request, was in the database when the
\* request left, fresh whether no earlier request carried its correlationId
Message(kind, r, corr, conn, committed) ==
    [kind |-> kind, rid |-> r, correlationId |-> corr, connectionId |-> conn,
     committed |-> committed, fresh |-> (\A m \in sent : m.correlationId # corr)]

\* the connectionId the provider assigns to the reserve request m
AssignedConnectionId(m) == m.correlationId

\* scheduler.add_job: the job takes a free slot of the pool
FreeSlots == { j \in JIDS : jobs[j].pc = "idle" }
FirstFree == CHOOSE j \in FreeSlots : \A k \in FreeSlots : j <= k
NewJob(kind, r) == [IdleJob EXCEPT !.kind = kind, !.rid = r, !.pc = "rotate"]
add_job(kind, r) == [jobs EXCEPT ![FirstFree] = NewJob(kind, r)]

HappyReplies ==
    << "reserveConfirmed", "reserveCommitConfirmed", "provisionConfirmed", "dataPlaneUp" >>
Off == 0 - 1

\* the request kind a send event authorises
KindOf(e) ==
    CASE e = "nsi_send_reserve" -> "reserve"
      [] e = "nsi_send_reserve_commit" -> "reserveCommit"
      [] e = "nsi_send_provision" -> "provision"
      [] e = "nsi_send_release" -> "release"
      [] e = "nsi_send_terminate" -> "terminate"
      [] OTHER -> "none"

SendEvents == { "nsi_send_reserve", "nsi_send_reserve_commit", "nsi_send_provision",
                "nsi_send_release", "nsi_send_terminate" }

\* ------------------------------------------------------- the GUI commands
\* the id the database gives the next row
NextRid == CHOOSE r \in RIDS : ~Exists(r) /\ \A q \in RIDS : q < r => Exists(q)

\* @nsi_send_reserve.on of fsm.py: on the nsi_send_reserve transition the
\* machine itself posts a reserve with a correlationId of its own (u) and
\* drops the reply; any failure of the post leaves the handler as an exception
HookMessages(r, u, o) ==
    IF o = "ok" THEN { Message("reserve", r, u, NoId, Exists(r)) } ELSE {}

\* POST /create: the row is built with a fresh correlationId and state
\* ConnectionNew, nsi_send_reserve is fired inside the transaction and the
\* reserve job is added after the commit
reservation_post(form) ==
    /\ \E r \in RIDS : ~Exists(r)
    /\ nextUuid + 2 <= MaxUuid
    /\ \E o \in Outcomes :
        LET r == NextRid
            u == nextUuid + 1
            h == nextUuid + 2
            f == Fire("nsi_send_reserve", "ConnectionNew")
            edges == << <<"nsi_send_reserve", "ConnectionNew", f.to>> >>
        IN IF f.ok /\ o = "ok"
           THEN /\ FreeSlots # {}
                /\ nextUuid' = h
                /\ res' = [res EXCEPT ![r] = [state |-> f.to, correlationId |-> u,
                                              connectionId |-> NoId]]
                /\ sent' = sent \cup HookMessages(r, h, o)
                /\ jobs' = add_job("reserve", r)
                /\ last' = [NoLast EXCEPT !.op = "reservation_post", !.rid = r,
                               !.ev = "nsi_send_reserve", !.db = "ConnectionNew",
                               !.from = "ConnectionNew", !.to = f.to, !.edges = edges,
                               !.http = 200, !.enq = {"reserve"},
                               !.out = HookMessages(r, h, o), !.rotated = TRUE,
                               !.outcome = o, !.kind = "reserve"]
                /\ booked' = [booked EXCEPT ![r] = form]
                /\ pending' = pending \cup HookMessages(r, h, o)
                /\ UNCHANGED <<delivered, repairs>>
           ELSE \* the exception rolls the transaction back: no row, no job, and
                \* the UUIDs of the refused request are seen by nobody
                /\ last' = [NoLast EXCEPT !.op = "reservation_post", !.http = 500,
                               !.ev = "nsi_send_reserve", !.outcome = o,
                               !.kind = "reserve"]
                /\ UNCHANGED <<res, nextUuid, jobs, sent, delivered, repairs, booked, pending>>
    /\ validated' = validated \ { form }
    /\ UNCHANGED <<topoVars, tick>>

\* mutant: the job is added whether or not the transition was allowed
GuiAddsJobAlways(ok) == TRUE

\* scheduler.add_job sits behind the transaction inside the try block: it is
\* reached only when no TransitionNotAllowed was raised
GuiAddsJob(ok) == ok

\* POST /{id}/terminate, /{id}/release, /{id}/provision: fire event e on row r,
\* commit, add the job of that kind; TransitionNotAllowed becomes HTTP 500
GuiCommand(op, e, r) ==
    /\ Exists(r)
    /\ LET s == res[r].state
           f == Fire(e, s)
           edges == IF f.ok THEN << <<e, s, f.to>> >> ELSE <<>>
           add == GuiAddsJob(f.ok)
       IN /\ add => FreeSlots # {}
          /\ res' = [res EXCEPT ![r].state = f.to]
          /\ jobs' = IF add THEN add_job(KindOf(e), r) ELSE jobs
          /\ last' = [NoLast EXCEPT !.op = op, !.rid = r, !.ev = e, !.db = s, !.from = s,
                         !.to = f.to, !.edges = edges,
                         !.http = IF f.ok THEN 200 ELSE 500,
                         !.enq = IF add THEN {KindOf(e)} ELSE {}]
          /\ UNCHANGED <<nextUuid, sent, delivered, repairs>>
    /\ UNCHANGED otherVars

reservation_terminate(r) == GuiCommand("reservation_terminate", "nsi_send_terminate", r)
reservation_release(r) == GuiCommand("reservation_release", "nsi_send_release", r)
reservation_provision(r) == GuiCommand("reservation_provision", "nsi_send_provision", r)

\* mutant: the repair takes whatever the URL carries
InStatesMapAny(new_state) == TRUE

\* new_state in ConnectionStateMachine.states_map.keys()
InStatesMap(new_state) == new_state \in States

\* GET /{id}/set_state/{new_state}: the repair stores new_state as it is
reservation_set_state(r, new_state) ==
    /\ Exists(r)
    /\ repairs < MaxRepairs
    /\ repairs' = repairs + 1
    /\ IF ~InStatesMap(new_state)
       THEN /\ last' = [NoLast EXCEPT !.op = "reservation_set_state", !.rid = r,
                            !.db = res[r].state, !.from = res[r].state,
                            !.to = res[r].state, !.http = 400]
            /\ UNCHANGED res
       ELSE /\ res' = [res EXCEPT ![r].state = new_state]
            /\ last' = [NoLast EXCEPT !.op = "reservation_set_state", !.rid = r,
                            !.db = res[r].state, !.from = res[r].state,
                            !.to = new_state, !.http = 200]
    /\ UNCHANGED <<nextUuid, jobs, sent, delivered>>
    /\ UNCHANGED otherVars

\* the local state that stands for the connectionStates of the provider
to_aura_connection_state(nsi_connection_states) ==
    LET n == nsi_connection_states IN
    IF n.lifecycleState = "Terminated" THEN "ConnectionTerminated"
    ELSE IF n.lifecycleState = "Terminating" THEN "ConnectionTerminating"
    ELSE IF n.lifecycleState = "Failed" THEN "ConnectionFailed"
    ELSE IF n.lifecycleState = "PassedEndTime" THEN "UNKNOWN"
    ELSE IF n.reservationState = "ReserveChecking" THEN "ConnectionReserveChecking"
    ELSE IF n.reservationState = "ReserveHeld" THEN "ConnectionReserveHeld"
    ELSE IF n.reservationState = "ReserveCommitting" THEN "ConnectionReserveCommitting"
    ELSE IF n.reservationState = "ReserveFailed" THEN "ConnectionReserveFailed"
    ELSE IF n.reservationState = "ReserveTimeout" THEN "ConnectionReserveTimeout"
    ELSE IF n.reservationState = "ReserveAborting" THEN "UNKNOWN"
    ELSE IF n.provisionState = "Provisioning" THEN "ConnectionProvisioning"
    ELSE IF n.provisionState = "Releasing" THEN "ConnectionReleasing"
    ELSE IF n.provisionState = "Provisioned" /\ n.active = "true" THEN "ConnectionActive"
    ELSE IF n.provisionState = "Provisioned" /\ n.active = "false" THEN "ConnectionProvisioned"
    ELSE IF n.provisionState = "Released" /\ n.active = "true" THEN "ConnectionReleased"
    ELSE IF n.provisionState = "Released" /\ n.active = "false" THEN "ConnectionReserveCommitted"
    ELSE "UNKNOWN"

\* GET /{id}/verify: querySummarySync goes out with a correlationId of its own
\* that is stored nowhere, the answer is shown next to the state it stands
\* for and nothing is written
reservation_verify(r, nsi_connection_states) ==
    /\ Exists(r)
    /\ last' = [NoLast EXCEPT !.op = "reservation_verify", !.rid = r,
                   !.db = res[r].state, !.from = res[r].state, !.to = res[r].state,
                   !.http = 200, !.kind = "querySummarySync",
                   !.nsi = nsi_connection_states,
                   !.should = to_aura_connection_state(nsi_connection_states)]
    /\ UNCHANGED <<res, nextUuid, jobs, sent, delivered, repairs>>
    /\ UNCHANGED otherVars

\* reservation_retry_reserve ("Reserve Again"): answers with a navigation to
\* the modify form of the row; the row is read by no transaction of the handler
\* and no event is fired on it.  The form it opens submits to the creation.
reservation_retry_reserve(r) ==
    /\ Exists(r)
    /\ last' = [NoLast EXCEPT !.op = "reservation_retry_reserve", !.rid = r,
                   !.db = res[r].state, !.from = res[r].state, !.to = res[r].state,
                   !.http = 200]
    /\ UNCHANGED <<res, nextUuid, jobs, sent, delivered, repairs>>
    /\ UNCHANGED otherVars

\* ---------------------------------------------------------------- the jobs
JobOps == { "job_rotate", "job_send", "job_persist", "job_err_read", "job_err_write" }

\* new_correlation_id_on_reservation: a transaction of its own that stores a
\* fresh correlationId on the row
JobRotate(j) ==
    /\ jobs[j].pc = "rotate"
    /\ nextUuid + 1 <= MaxUuid
    /\ LET r == jobs[j].rid IN
        /\ nextUuid' = nextUuid + 1
        /\ res' = [res EXCEPT ![r].correlationId = nextUuid + 1]
        /\ jobs' = [jobs EXCEPT ![j].pc = "send"]
        /\ last' = [NoLast EXCEPT !.op = "job_rotate", !.rid = r, !.kind = jobs[j].kind,
                       !.db = res[r].state, !.from = res[r].state, !.to = res[r].state,
                       !.rotated = TRUE]
    /\ UNCHANGED <<sent, delivered, repairs>>
    /\ UNCHANGED otherVars

\* mutant: the job reads the first row of the table instead of its own
LoadedRowFirst(r) == res[CHOOSE q \in RIDS : Exists(q) /\ \A p \in RIDS : Exists(p) => q <= p]

\* session.query(Reservation).filter(Reservation.id == reservation_id).one()
LoadedRow(r) == res[r]

\* where a failed send is written: on the reservation's log (a logger bound
\* to the reservationId), on the unbound logger of nsi_util_post_soap, at
\* debug level by the reply parser, or only by the scheduler that catches the
\* exception leaving the job
JobLogged(kind, o) ==
    CASE o = "ok" -> "info"
      [] kind = "reserve" /\ IsOSError(o) -> "reservation"
      [] kind \in {"release", "terminate"} /\ o = "fault" -> "reservation"
      [] kind \in {"reserveCommit", "provision"} /\ o = "fault" -> "debug"
      [] o = "conn_error" -> "unbound"
      [] OTHER -> "scheduler"

\* mutant: every job handles a failed send the way the reserve job does
CatchesFailureAll(kind, o) == IsOSError(o)

\* except OSError of nsi_send_reserve_job; the other jobs have no handler
CatchesFailure(kind, o) == kind = "reserve" /\ IsOSError(o)

\* the job reads the row again, in a second session, and posts its request
\* from this copy; the reserve job goes on to store the connectionId or to
\* its except branch, every other job ends here
JobSend(j) ==
    /\ jobs[j].pc = "send"
    /\ \E o \in Outcomes :
        LET r == jobs[j].rid
            kind == jobs[j].kind
            row == LoadedRow(r)
            m == Message(kind, r, row.correlationId, row.connectionId, Exists(r))
            out == IF o = "ok" THEN { m } ELSE {}
            pc == CASE o = "ok" /\ kind = "reserve" -> "persist"
                    [] o # "ok" /\ CatchesFailure(kind, o) -> "err_read"
                    [] OTHER -> "idle"
        IN /\ sent' = sent \cup out
           /\ jobs' = [jobs EXCEPT ![j] =
                         IF pc = "idle" THEN IdleJob
                         ELSE [@ EXCEPT !.pc = pc, !.outcome = o,
                                        !.connectionId =
                                            IF pc = "persist" THEN AssignedConnectionId(m)
                                            ELSE @]]
           /\ last' = [NoLast EXCEPT !.op = "job_send", !.rid = r, !.kind = kind,
                          !.db = res[r].state, !.from = res[r].state, !.to = res[r].state,
                          !.out = out, !.outcome = o, !.logged = JobLogged(kind, o),
                          !.key = row.correlationId, !.done = (pc = "idle")]
           /\ pending' = pending \cup out
    /\ UNCHANGED <<res, nextUuid, delivered, repairs>>
    /\ UNCHANGED <<topoVars, tick, booked, validated>>

\* mutant: the job stores the row as it was when the request was built, the
\* state of that moment included
PersistedWithState(row, connectionId) ==
    [row EXCEPT !.connectionId = connectionId, !.state = "ConnectionReserveChecking"]

\* reservation.connectionId = UUID(retdict["connectionId"]) on the row as it
\* is read in this transaction
Persisted(row, connectionId) == [row EXCEPT !.connectionId = connectionId]

\* the else branch of nsi_send_reserve_job: the connectionId the provider
\* returned is stored in a transaction of its own
JobPersist(j) ==
    /\ jobs[j].pc = "persist"
    /\ LET r == jobs[j].rid IN
        /\ res' = [res EXCEPT ![r] = Persisted(res[r], jobs[j].connectionId)]
        /\ jobs' = [jobs EXCEPT ![j] = IdleJob]
        /\ last' = [NoLast EXCEPT !.op = "job_persist", !.rid = r, !.kind = jobs[j].kind,
                       !.db = res[r].state, !.from = res[r].state, !.to = res[r].state,
                       !.outcome = "ok", !.done = TRUE]
    /\ UNCHANGED <<nextUuid, sent, delivered, repairs>>
    /\ UNCHANGED otherVars

\* the except branch, first half: the job's thread reads the row.  Neither
\* database takes a lock for this SELECT (READ COMMITTED on PostgreSQL, no
\* BEGIN before a SELECT on SQLite), so the handlers of the web application
\* can commit between this read and the job's UPDATE
JobErrRead(j) ==
    /\ jobs[j].pc = "err_read"
    /\ LET r == jobs[j].rid IN
        /\ jobs' = [jobs EXCEPT ![j].pc = "err_write", ![j].state = res[r].state]
        /\ last' = [NoLast EXCEPT !.op = "job_err_read", !.rid = r, !.kind = jobs[j].kind,
                       !.db = res[r].state, !.from = res[r].state, !.to = res[r].state]
    /\ UNCHANGED <<res, nextUuid, sent, delivered, repairs>>
    /\ UNCHANGED otherVars

\* the except branch, second half: csm.connection_error() on the copy that
\* was read, and the commit of the state it yields
JobErrWrite(j) ==
    /\ jobs[j].pc = "err_write"
    /\ LET r == jobs[j].rid
           s == jobs[j].state
           f == Fire("connection_error", s)
           edges == IF f.ok THEN << <<"connection_error", s, f.to>> >> ELSE <<>>
       IN /\ res' = [res EXCEPT ![r].state = IF f.ok THEN f.to ELSE @]
          /\ jobs' = [jobs EXCEPT ![j] = IdleJob]
          /\ last' = [NoLast EXCEPT !.op = "job_err_write", !.rid = r, !.kind = jobs[j].kind,
                         !.ev = "connection_error", !.db = res[r].state, !.from = s,
                         !.to = IF f.ok THEN f.to ELSE res[r].state, !.edges = edges,
                         !.outcome = jobs[j].outcome,
                         !.logged = IF f.ok THEN "reservation" ELSE "scheduler",
                         !.done = TRUE]
    /\ UNCHANGED <<nextUuid, sent, delivered, repairs>>
    /\ UNCHANGED otherVars

\* ------------------------------------------------------- the NSI callback
SoapActions == { "reserveFailed", "reserveTimeout", "reserveConfirmed",
                 "reserveCommitConfirmed", "provisionConfirmed", "releaseConfirmed",
                 "terminateConfirmed", "dataPlaneUp", "dataPlaneDown", "errorEvent",
                 "unknown" }

\* errorEvent, dataPlaneStateChange and reserveTimeout carry the connectionId
\* in their body; every other callback is found by its correlationId
ByConnectionId(a) == a \in { "errorEvent", "dataPlaneUp", "dataPlaneDown", "reserveTimeout" }

\* the rows the handler's query yields for key
Lookup(a, key) ==
    { r \in RIDS : /\ Exists(r)
                   /\ key # NoId
                   /\ IF ByConnectionId(a) THEN res[r].connectionId = key
                                            ELSE res[r].correlationId = key }

\* mutant: the handler applies the receive event and leaves the follow-up
\* send event to the user
CallbackEventsNoAuto(a) ==
    CASE a = "reserveFailed" -> << "nsi_receive_reserve_failed" >>
      [] a = "reserveTimeout" -> << "nsi_receive_reserve_timeout" >>
      [] a = "reserveConfirmed" -> << "nsi_receive_reserve_confirmed" >>
      [] a = "reserveCommitConfirmed" -> << "nsi_receive_reserve_commit_confirmed" >>
      [] a = "provisionConfirmed" -> << "nsi_receive_provision_confirmed" >>
      [] a = "releaseConfirmed" -> << "nsi_receive_release_confirmed" >>
      [] a = "terminateConfirmed" -> << "nsi_receive_terminate_confirmed" >>
      [] a = "dataPlaneUp" -> << "nsi_receive_data_plane_up" >>
      [] a = "dataPlaneDown" -> << "nsi_receive_data_plane_down" >>
      [] a = "errorEvent" -> << "nsi_receive_error_event" >>
      [] OTHER -> << >>

\* mutant: a data plane that went down is handled as one that came up
CallbackEventsDownAsUp(a) ==
    CASE a = "reserveFailed" -> << "nsi_receive_reserve_failed" >>
      [] a = "reserveTimeout" -> << "nsi_receive_reserve_timeout" >>
      [] a = "reserveConfirmed" -> << "nsi_receive_reserve_confirmed", "nsi_send_reserve_commit" >>
      [] a = "reserveCommitConfirmed" -> << "nsi_receive_reserve_commit_confirmed", "nsi_send_provision" >>
      [] a = "provisionConfirmed" -> << "nsi_receive_provision_confirmed" >>
      [] a = "releaseConfirmed" -> << "nsi_receive_release_confirmed" >>
      [] a = "terminateConfirmed" -> << "nsi_receive_terminate_confirmed" >>
      [] a \in {"dataPlaneUp", "dataPlaneDown"} -> << "nsi_receive_data_plane_up" >>
      [] a = "errorEvent" -> << "nsi_receive_error_event" >>
      [] OTHER -> << >>

\* the events the match statement fires for a SOAPAction, in order
CallbackEvents(a) ==
    CASE a = "reserveFailed" -> << "nsi_receive_reserve_failed" >>
      [] a = "reserveTimeout" -> << "nsi_receive_reserve_timeout" >>
      [] a = "reserveConfirmed" -> << "nsi_receive_reserve_confirmed", "nsi_send_reserve_commit" >>
      [] a = "reserveCommitConfirmed" -> << "nsi_receive_reserve_commit_confirmed", "nsi_send_provision" >>
      [] a = "provisionConfirmed" -> << "nsi_receive_provision_confirmed" >>
      [] a = "releaseConfirmed" -> << "nsi_receive_release_confirmed" >>
      [] a = "terminateConfirmed" -> << "nsi_receive_terminate_confirmed" >>
      [] a = "dataPlaneUp" -> << "nsi_receive_data_plane_up" >>
      [] a = "dataPlaneDown" -> << "nsi_receive_data_plane_down" >>
      [] a = "errorEvent" -> << "nsi_receive_error_event" >>
      [] OTHER -> << >>

\* the job the second match statement adds for a SOAPAction
CallbackJob(a) ==
    CASE a = "reserveConfirmed" -> "reserveCommit"
      [] a = "reserveCommitConfirmed" -> "provision"
      [] OTHER -> "none"

\* the events fired one after the other on one machine, up to the first
\* TransitionNotAllowed; the except clause sits inside the transaction, so
\* what was applied before it is committed
RECURSIVE FireAll(_, _)
FireAll(events, s) ==
    IF events = <<>> THEN [ok |-> TRUE, to |-> s, edges |-> <<>>]
    ELSE LET f == Fire(Head(events), s) IN
         IF ~f.ok THEN [ok |-> FALSE, to |-> s, edges |-> <<>>]
         ELSE LET rest == FireAll(Tail(events), f.to) IN
              [ok |-> rest.ok, to |-> rest.to,
               edges |-> << <<Head(events), s, f.to>> >> \o rest.edges]

\* delivered[r] after the provider has sent callback a about reservation r
Follow(k, a) ==
    IF k # Off /\ k < Len(HappyReplies) /\ HappyReplies[k + 1] = a THEN k + 1 ELSE Off

\* what the handler writes on the log bound to the reservation before it
\* fires the event: the text of the provider's serviceException for
\* reserveFailed and errorEvent, a fixed line otherwise; a refused event adds
\* the warning of the except clause on the same log
CallbackLogged(a, ok) ==
    IF ~ok THEN "reservation"
    ELSE IF a \in { "reserveFailed", "errorEvent" } THEN "serviceException"
    ELSE "info"

\* POST /callback/ with SOAPAction a and the correlationId or connectionId key
nsi_callback(a, key) ==
    LET found == Lookup(a, key)
        evs == CallbackEvents(a)
    IN
    IF Cardinality(found) # 1
    THEN \* .one() raises: the transaction is rolled back, no acknowledgement
         /\ last' = [NoLast EXCEPT !.op = "nsi_callback", !.http = 500]
         /\ UNCHANGED <<res, nextUuid, jobs, sent, repairs>>
    ELSE LET r == CHOOSE q \in found : TRUE
             s == res[r].state
             f == FireAll(evs, s)
             job == CallbackJob(a)
             \* reservation_id is bound only when no TransitionNotAllowed was raised
             adds == job # "none" /\ f.ok
             crash == job # "none" /\ ~f.ok
         IN /\ adds => FreeSlots # {}
            /\ res' = [res EXCEPT ![r].state = f.to]
            /\ jobs' = IF adds THEN add_job(job, r) ELSE jobs
            /\ last' = [NoLast EXCEPT !.op = "nsi_callback", !.rid = r, !.kind = a,
                           !.ev = IF evs = <<>> THEN "none" ELSE Head(evs),
                           !.db = s, !.from = s, !.to = f.to, !.edges = f.edges,
                           !.key = key, !.matched = r,
                           !.http = IF crash THEN 500 ELSE 200,
                           !.enq = IF adds THEN {job} ELSE {},
                           !.logged = CallbackLogged(a, f.ok)]
            /\ UNCHANGED <<nextUuid, sent, repairs>>

\* what a callback can lack: a body that is XML, the correlationId of its
\* header, the connectionId of its body
Violations == { "malformed_xml", "missing_id" }

\* POST /callback/ with a body the handler cannot read: etree.fromstring
\* raises before the transaction is opened, the subscript of a missing
\* element raises a KeyError inside it; only TransitionNotAllowed is caught,
\* so the exception leaves the handler and nothing is written
nsi_callback_unparsed(v) ==
    /\ last' = [NoLast EXCEPT !.op = "nsi_callback", !.kind = v, !.http = 500]
    /\ UNCHANGED <<res, nextUuid, jobs, sent, repairs>>
    /\ UNCHANGED otherVars

\* ------------------------------------------------------------ the provider
\* the connectionIds the provider has assigned
AssignedConnectionIds ==
    { AssignedConnectionId(m) : m \in { q \in sent : q.kind = "reserve" } }

\* any callback about a request the provider has seen, in any order and any
\* number of times, or about an id that is on no row: the handler fails on
\* its query whatever the id and the SOAPAction, NoId stands for all such ids,
\* reserveConfirmed for the actions that carry a correlationId and errorEvent
\* for those that carry a connectionId
ProviderSends(a, key) ==
    \/ key = NoId /\ a \in { "reserveConfirmed", "errorEvent" }
    \/ /\ Lookup(a, key) # {}
       /\ \/ ByConnectionId(a) /\ key \in AssignedConnectionIds
          \/ ~ByConnectionId(a) /\ key \in { m.correlationId : m \in sent }

\* the callbacks of the table of outbound messages: each request the provider
\* accepted is answered by its own confirmation, a follow-up request only
\* when it names a connection the provider created
Answers(a, kind) ==
    \/ kind = "reserve" /\ a \in { "reserveConfirmed", "reserveFailed" }
    \/ kind = "reserveCommit" /\ a = "reserveCommitConfirmed"
    \/ kind = "provision" /\ a = "provisionConfirmed"
    \/ kind = "release" /\ a = "releaseConfirmed"
    \/ kind = "terminate" /\ a = "terminateConfirmed"

ProviderAnswers(a, key) ==
    \/ ByConnectionId(a) /\ key \in AssignedConnectionIds
    \/ /\ ~ByConnectionId(a)
       /\ \E m \in sent :
            /\ m.correlationId = key
            /\ Answers(a, m.kind)
            /\ m.kind # "reserve" => m.connectionId \in AssignedConnectionIds

\* ------------------------------------------------------ the topology poll
NoPort == <<>>
InboundPort(s) == <<s, "in">>
OutboundPort(s) == <<s, "out">>

\* a BidirectionalPort of a topology document: its id, the port of another
\* domain its two members are an alias of, the LabelGroup of its inbound
\* member and its name
Port(s, peer, v, d) ==
    [stpId |-> s, alias |-> peer, vlanRange |-> v, description |-> d,
     relations |-> IF peer = "none" THEN 0 ELSE 1]

\* a port whose members carry n Relation elements, the isAlias relation to
\* peer among them: the parsed XML holds them as a list
PortWithRelations(s, peer, v, d, n) == [Port(s, peer, v, d) EXCEPT !.relations = n]

\* what the DDS can publish: the topology of one domain holds the link port a
\* (towards z) and the client port x, the topology of the other domain holds
\* the link port z (towards a) and at times a port with the stpId x as well
LinkA == { <<>>, << Port("a", "z", "100-200", "link") >>, << Port("a", "z", "300", "link") >> }
ClientX == { <<>>, << Port("x", "none", "10", "d1") >>, << Port("x", "none", "10", "d2") >> }
LinkZ == { <<>>, << Port("z", "a", "100-200", "link") >> }
OtherX == { <<>>, << Port("x", "none", "10", "d1") >> }

\* a document that is of no use: its payload is no XML, its topology lacks
\* the BidirectionalPort or Relation elements, its content is no gzip
BrokenForms == { "not_wellformed", "no_relation", "bad_gzip" }

Document(form, ports) == [form |-> form, ports |-> ports]
Documents1 ==
    { Document("ok", p \o q) : p \in LinkA, q \in ClientX }
        \cup { Document(f, <<>>) : f \in BrokenForms }
Documents2 ==
    { Document("ok", p \o q) : p \in LinkZ, q \in OtherX }
        \cup { Document(f, <<>>) : f \in BrokenForms }
Snapshots == { << d1, d2 >> : d1 \in Documents1, d2 \in Documents2 }

\* the GET of the index: answered with XML, no connection, a status that is
\* not 200, a body that is no XML
FetchFailures == { "conn_error", "http_error", "not_xml" }

\* session.query(STP).filter(STP.active == True).all() has no ORDER BY: the
\* rows come in the order of the table's pages, which on PostgreSQL changes
\* when a row is updated
ReadOrders == { "asc", "desc" }

NoPoll == [outcome |-> "none", cause |-> "none", forms |-> <<>>, snapshot |-> {},
           published |-> {}, wasActive |-> {}, changed |-> FALSE, lists |-> FALSE,
           stps |-> <<>>, connected |-> {}, wasActiveSdp |-> {}]

\* one STP per BidirectionalPort; the ports and aliases are filled in only
\* when both members carry an isAlias relation; a KeyError on
\* BidirectionalPort or Relation is caught and yields no STP
PortToStp(p) ==
    LET aliased == p.alias # "none" IN
    [id |-> NoId, stpId |-> p.stpId,
     inboundPort |-> IF aliased THEN InboundPort(p.stpId) ELSE NoPort,
     outboundPort |-> IF aliased THEN OutboundPort(p.stpId) ELSE NoPort,
     inboundAlias |-> IF aliased THEN OutboundPort(p.alias) ELSE NoPort,
     outboundAlias |-> IF aliased THEN InboundPort(p.alias) ELSE NoPort,
     vlanRange |-> p.vlanRange, description |-> p.description, active |-> TRUE]

topology_to_stps(topology) ==
    IF topology.form = "no_relation" THEN <<>>
    ELSE [i \in 1..Len(topology.ports) |-> PortToStp(topology.ports[i])]

\* inboundPort["Relation"]["type"] on a list of Relation elements: a
\* TypeError, which the except KeyError around the top of the function does
\* not catch and which sits behind it
RelationIsList(topology) ==
    /\ topology.form = "ok"
    /\ \E i \in DOMAIN topology.ports : topology.ports[i].relations > 1

\* the first exception of the list comprehension of nsi_poll_dds_job, which
\* parses and converts the documents one after the other
RECURSIVE FirstFailure(_)
FirstFailure(docs) ==
    IF docs = <<>> THEN "none"
    ELSE IF Head(docs).form = "not_wellformed" THEN "not_wellformed"
    ELSE IF RelationIsList(Head(docs)) THEN "relation_list"
    ELSE FirstFailure(Tail(docs))

\* nsi_util_get_xml returns None when the GET fails or is not answered with
\* 200 and XML, and the documents are then an empty dict; an index that is no
\* XML and a content that is no gzip raise
get_dds_documents(fetch, docs) ==
    CASE fetch \in { "conn_error", "http_error" } -> [raised |-> FALSE, cause |-> fetch, documents |-> <<>>]
      [] fetch = "not_xml" -> [raised |-> TRUE, cause |-> fetch, documents |-> <<>>]
      [] OTHER ->
            IF \E i \in DOMAIN docs : docs[i].form = "bad_gzip"
            THEN [raised |-> TRUE, cause |-> "bad_gzip", documents |-> <<>>]
            ELSE [raised |-> FALSE, cause |-> "ok", documents |-> docs]

\* the list comprehension of nsi_poll_dds_job: the STPs of all documents
RECURSIVE ParsedStps(_)
ParsedStps(docs) ==
    IF docs = <<>> THEN <<>>
    ELSE topology_to_stps(Head(docs)) \o ParsedStps(Tail(docs))

StpIdsOf(stps) == { stps[i].stpId : i \in DOMAIN stps }

\* mutant: a row whose ports, aliases and vlanRange are as published is left
\* as it is
StpChangedButActive(existing_stp, new_stp) ==
    \/ existing_stp.inboundPort # new_stp.inboundPort
    \/ existing_stp.outboundPort # new_stp.outboundPort
    \/ existing_stp.inboundAlias # new_stp.inboundAlias
    \/ existing_stp.outboundAlias # new_stp.outboundAlias
    \/ existing_stp.vlanRange # new_stp.vlanRange

\* the elif of update_stps
StpChanged(existing_stp, new_stp) ==
    \/ existing_stp.inboundPort # new_stp.inboundPort
    \/ existing_stp.outboundPort # new_stp.outboundPort
    \/ existing_stp.inboundAlias # new_stp.inboundAlias
    \/ existing_stp.outboundAlias # new_stp.outboundAlias
    \/ existing_stp.vlanRange # new_stp.vlanRange
    \/ existing_stp.active # new_stp.active

\* one transaction of the first loop of update_stps; the table is the
\* sequence of its rows, the id of a row is its place
UpsertStp(table, new_stp) ==
    LET found == { i \in DOMAIN table : table[i].stpId = new_stp.stpId } IN
    IF found = {} THEN Append(table, [new_stp EXCEPT !.id = Len(table) + 1])
    ELSE LET i == CHOOSE k \in found : TRUE IN
         IF StpChanged(table[i], new_stp)
         THEN [table EXCEPT ![i].inboundPort = new_stp.inboundPort,
                            ![i].outboundPort = new_stp.outboundPort,
                            ![i].inboundAlias = new_stp.inboundAlias,
                            ![i].outboundAlias = new_stp.outboundAlias,
                            ![i].vlanRange = new_stp.vlanRange,
                            ![i].active = new_stp.active]
         ELSE table

RECURSIVE UpsertStps(_, _)
UpsertStps(table, stps) ==
    IF stps = <<>> THEN table
    ELSE UpsertStps(UpsertStp(table, Head(stps)), Tail(stps))

\* the last transaction of update_stps: the active rows that are not in the
\* list are marked inactive
update_stps(table, stps) ==
    LET upserted == UpsertStps(table, stps) IN
    [i \in DOMAIN upserted |->
        IF upserted[i].active /\ upserted[i].stpId \notin StpIdsOf(stps)
        THEN [upserted[i] EXCEPT !.active = FALSE]
        ELSE upserted[i]]

has_alias(s) == s.inboundAlias # NoPort /\ s.outboundAlias # NoPort

is_sdp(a, z) ==
    /\ has_alias(a)
    /\ has_alias(z)
    /\ a.inboundAlias = z.outboundPort
    /\ a.outboundAlias = z.inboundPort
    /\ z.inboundAlias = a.outboundPort
    /\ z.outboundAlias = a.inboundPort

Reverse(s) == [i \in 1..Len(s) |-> s[Len(s) + 1 - i]]
IsActive(s) == s.active

\* the active rows as the query of update_sdps yields them
ActiveStps(table, order) ==
    IF order = "asc" THEN SelectSeq(table, IsActive)
    ELSE Reverse(SelectSeq(table, IsActive))

\* list.remove(z): the list without its first element equal to z
Remove(L, z) ==
    LET j == CHOOSE k \in DOMAIN L : L[k] = z /\ \A m \in 1..(k - 1) : L[m] # z
    IN SubSeq(L, 1, j - 1) \o SubSeq(L, j + 1, Len(L))

\* "for z in stps" for one a: both loops run over the one list and z is
\* removed from it while they run, the iterators keep their positions
RECURSIVE InnerLoop(_, _, _, _)
InnerLoop(L, a, j, found) ==
    IF j > Len(L) THEN [stps |-> L, sdps |-> found]
    ELSE IF is_sdp(a, L[j])
         THEN InnerLoop(Remove(L, L[j]), a, j + 1, Append(found, << a, L[j] >>))
         ELSE InnerLoop(L, a, j + 1, found)

\* "for a in stps"
RECURSIVE OuterLoop(_, _, _)
OuterLoop(L, i, found) ==
    IF i > Len(L) THEN found
    ELSE LET r == InnerLoop(L, L[i], 1, found) IN OuterLoop(r.stps, i + 1, r.sdps)

\* the pairs (a, z) of connected STPs found by update_sdps
ConnectedStps(L) == OuterLoop(L, 1, <<>>)

\* SDP.active of a row that is added without it
SdpActiveDefault == TRUE

\* one transaction of "process found SDPs": the row is looked up by
\* stpAId = a.id and stpZId = z.id
UpsertSdp(table, pair) ==
    LET a == pair[1]
        z == pair[2]
        found == { i \in DOMAIN table : table[i].stpAId = a.id /\ table[i].stpZId = z.id }
    IN IF found = {}
       THEN Append(table, [id |-> Len(table) + 1, stpAId |-> a.id, stpZId |-> z.id,
                           vlanRange |-> a.vlanRange,
                           description |-> << a.description, z.description >>,
                           active |-> SdpActiveDefault])
       ELSE LET i == CHOOSE k \in found : TRUE IN
            IF table[i].vlanRange # a.vlanRange \/ ~table[i].active
            THEN [table EXCEPT ![i].vlanRange = a.vlanRange, ![i].active = TRUE]
            ELSE table

RECURSIVE UpsertSdps(_, _)
UpsertSdps(table, pairs) ==
    IF pairs = <<>> THEN table
    ELSE UpsertSdps(UpsertSdp(table, Head(pairs)), Tail(pairs))

\* sorted([x, y])
Sorted(x, y) == IF x <= y THEN << x, y >> ELSE << y, x >>

\* the last transaction of update_sdps.  "SDP.stpAId == stpA.id and
\* SDP.stpZId == stpA.id" is Python's and of two SQL expressions: the first
\* one is not true as a Python value, so it is the value of the and and the
\* UPDATE is WHERE stpAId = stpA.id, stpA being the row with the smaller id
DeactivateSdps(table, pairs) ==
    LET new_sdps == { Sorted(pairs[i][1].id, pairs[i][2].id) : i \in DOMAIN pairs }
        existing_sdps == { Sorted(table[i].stpAId, table[i].stpZId) :
                              i \in { k \in DOMAIN table : table[k].active } }
        vanished == existing_sdps \ new_sdps
    IN [i \in DOMAIN table |->
           IF \E v \in vanished : table[i].stpAId = v[1]
           THEN [table[i] EXCEPT !.active = FALSE]
           ELSE table[i]]

update_sdps(stpTable, sdpTable, order) ==
    LET sdps == ConnectedStps(ActiveStps(stpTable, order))
    IN DeactivateSdps(UpsertSdps(sdpTable, sdps), sdps)

FormsOf(docs) == [i \in DOMAIN docs |-> docs[i].form]
PublishedBy(docs) ==
    UNION { { docs[i].ports[k].stpId : k \in DOMAIN docs[i].ports } : i \in DOMAIN docs }
ActiveStpIds(table) == { table[i].stpId : i \in { k \in DOMAIN table : table[k].active } }

\* nsi_poll_dds_job: the tick of the interval trigger.  An exception of
\* get_dds_documents, of nsi_xml_to_dict or of topology_to_stps ends the job
\* before update_stps
\* is called; nothing else writes the active flags, the ports or the SDPs
nsi_poll_dds_job(fetch, docs, order) ==
    /\ polls < MaxPolls
    /\ polls' = polls + 1
    /\ LET got == get_dds_documents(fetch, docs)
           failure == FirstFailure(got.documents)
           stps == ParsedStps(got.documents)
           newStp == update_stps(stp, stps)
           newSdp == update_sdps(newStp, sdp, order)
           pairs == ConnectedStps(ActiveStps(newStp, order))
           seen == [NoPoll EXCEPT !.forms = FormsOf(docs), !.published = PublishedBy(docs),
                                  !.wasActive = ActiveStpIds(stp),
                                  !.lists = \E i \in DOMAIN docs : RelationIsList(docs[i]),
                                  !.wasActiveSdp = { i \in DOMAIN sdp : sdp[i].active }]
       IN IF got.raised \/ failure # "none"
          THEN /\ poll' = [seen EXCEPT !.outcome = "aborted",
                                       !.cause = IF got.raised THEN got.cause ELSE failure]
               /\ UNCHANGED << stp, sdp >>
          ELSE /\ stp' = newStp
               /\ sdp' = newSdp
               /\ poll' = [seen EXCEPT !.outcome = "completed", !.cause = got.cause,
                                       !.snapshot = StpIdsOf(stps),
                                       !.stps = stps,
                                       !.connected = { Sorted(pairs[i][1].id, pairs[i][2].id) :
                                                          i \in DOMAIN pairs },
                                       !.changed = (<< newStp, newSdp >> # << stp, sdp >>)]
    /\ UNCHANGED resVars

\* ------------------------------------------------------ the specifications
\* the database is created empty, the scheduler has no job but the poll
Init ==
    /\ res = [r \in RIDS |-> NoRow]
    /\ nextUuid = 0
    /\ jobs = [j \in JIDS |-> IdleJob]
    /\ sent = {}
    /\ last = NoLast
    /\ delivered = [r \in RIDS |-> 0]
    /\ repairs = 0
    /\ stp = <<>>
    /\ sdp = <<>>
    /\ poll = NoPoll
    /\ polls = 0
    /\ tick = NoTick
    /\ booked = [r \in RIDS |-> Unbooked]
    /\ validated = {}
    /\ pending = {}

\* the states the user asks the repair for: two that Verify computes from the
\* provider's answer and one, typed into the URL, that is no state
RepairStates == { "ConnectionActive", "ConnectionReserveCommitted", "UNKNOWN" }

\* what the provider answers to the querySummarySync of Verify while the
\* commands, jobs and callbacks are looked at
VerifyAnswer == { ConnectionStates("Created", "ReserveStart", "Provisioned", "true") }

JobStep ==
    \E j \in JIDS :
        \/ JobRotate(j)
        \/ JobSend(j)
        \/ JobPersist(j)
        \/ JobErrRead(j)
        \/ JobErrWrite(j)

Gui ==
    \E r \in RIDS :
        \/ reservation_terminate(r)
        \/ reservation_release(r)
        \/ reservation_provision(r)
        \/ \E nsi \in VerifyAnswer : reservation_verify(r, nsi)
        \/ reservation_retry_reserve(r)
        \/ \E new_state \in RepairStates : reservation_set_state(r, new_state)

Callback ==
    \/ \E a \in SoapActions, key \in 0..MaxUuid :
          /\ ProviderSends(a, key)
          /\ nsi_callback(a, key)
          /\ UNCHANGED <<delivered, otherVars>>
    \/ \E v \in Violations :
          /\ nsi_callback_unparsed(v)
          /\ UNCHANGED delivered

Next ==
    \/ reservation_post(Unbooked)
    \/ Gui
    \/ JobStep
    \/ Callback

Spec == Init /\ [][Next]_vars

\* a session in which the user only creates reservations and the provider
\* answers the requests it accepted
AnsweredCallback ==
    \E a \in SoapActions, key \in 1..MaxUuid :
        /\ ProviderAnswers(a, key)
        /\ nsi_callback(a, key)
        /\ delivered' = [r \in RIDS |-> IF r \in Lookup(a, key) THEN Follow(delivered[r], a)
                                                              ELSE delivered[r]]
        /\ UNCHANGED otherVars

NextHappy ==
    \/ reservation_post(Unbooked)
    \/ JobStep
    \/ AnsweredCallback

SpecHappy == Init /\ [][NextHappy]_vars

\* the topology pipeline on its own: the ticks of the poll, each with what
\* the DDS answers and the order in which the database yields the STPs
Poll ==
    \/ \E docs \in Snapshots, order \in ReadOrders :
          nsi_poll_dds_job("ok", docs, order) /\ UNCHANGED <<tick, booked, validated, pending>>
    \/ \E fetch \in FetchFailures :
          nsi_poll_dds_job(fetch, <<>>, "asc") /\ UNCHANGED <<tick, booked, validated, pending>>

SpecTopo == Init /\ [][Poll]_vars

\* ------------------------------------------------- the poll's interval job
\* job_defaults of the scheduler: the number of instances of one job that may
\* run at the same time
max_instances == 1

\* mutant: the scheduler submits a due job whatever is running
SubmitsAlways(running) == TRUE

\* the scheduler submits a due job to the thread pool only while fewer than
\* max_instances of it are running; otherwise the run is skipped with a
\* warning and the job waits for its next run time
Submits(running) == running < max_instances

\* the documents the DDS publishes while the ticks are looked at
TickSnapshots == { << Document("ok", p), Document("ok", <<>>) >> : p \in ClientX }

\* the interval trigger of the poll is due (once a minute)
IntervalTick ==
    /\ tick.ticks < MaxTicks
    /\ tick' = IF Submits(tick.running)
               THEN [tick EXCEPT !.ticks = @ + 1, !.running = @ + 1]
               ELSE [tick EXCEPT !.ticks = @ + 1, !.skipped = @ + 1]
    /\ UNCHANGED << resVars, topoVars, booked, validated, pending >>

\* a submitted instance of the poll does its work and ends
PollInstance ==
    /\ tick.running > 0
    /\ \/ \E docs \in TickSnapshots, order \in ReadOrders : nsi_poll_dds_job("ok", docs, order)
       \/ \E fetch \in FetchFailures : nsi_poll_dds_job(fetch, <<>>, "asc")
    /\ tick' = [tick EXCEPT !.running = @ - 1]
    /\ UNCHANGED << booked, validated, pending >>

NextTick ==
    \/ IntervalTick
    \/ PollInstance

SpecTick == Init /\ [][NextTick]_vars

\* ------------------------------------------------------ the VLANs of an STP
\* mutant: the upper bound of a VLAN ID is one too high
VlanUpTo4095(v) == v >= 2 /\ v <= 4095

\* Vlan = Annotated[int, Ge(2), Le(4094)]
Vlan(v) == v >= 2 /\ v <= 4094

\* the states whose reservations hold their VLANs
active_state_values ==
    States \ { "ConnectionNew", "ConnectionReserveFailed", "ConnectionReserveTimeout",
               "ConnectionTerminated", "ConnectionDeleted" }

\* [list(map(int, s.strip().split("-"))) for s in val.split(",")] on the
\* range strings of the topology documents
SplitRanges(val) ==
    CASE val = "100-200" -> << << 100, 200 >> >>
      [] val = "300" -> << << 300 >> >>
      [] val = "10" -> << << 10 >> >>
      [] val = "1-2,4094-4096" -> << << 1, 2 >>, << 4094, 4096 >> >>
      [] OTHER -> <<>>

\* a one element range is a VLAN, a two element range holds both its ends
expand_ranges(vlans) ==
    UNION { IF Len(vlans[i]) = 2 THEN vlans[i][1] .. vlans[i][2] ELSE { vlans[i][1] } :
            i \in DOMAIN vlans }

\* VlanRanges(str): the set of VLANs of a range string
VlanRanges(val) == expand_ranges(SplitRanges(val))

\* session.query(STP.vlanRange).filter(STP.id == stpId).scalar(): None, and
\* with it no VLAN, when there is no such row
all_vlan_ranges(stpId) ==
    UNION { VlanRanges(stp[i].vlanRange) : i \in { k \in DOMAIN stp : stp[k].id = stpId } }

\* mutant: only the reservations that start at the STP are looked at
in_use_as_source(stpId) ==
    { booked[r].sourceVlan :
        r \in { q \in RIDS : res[q].state \in active_state_values /\ booked[q].sourceSTP = stpId } }

\* the sourceVlan of the reservations in an active state that start at the
\* STP and the destVlan of those that end at it
in_use_vlan_ranges(stpId) ==
    { booked[r].sourceVlan :
        r \in { q \in RIDS : res[q].state \in active_state_values /\ booked[q].sourceSTP = stpId } }
    \cup
    { booked[r].destVlan :
        r \in { q \in RIDS : res[q].state \in active_state_values /\ booked[q].destSTP = stpId } }

\* every VLAN in use that is in the range of the STP is taken out of it
free_vlan_ranges(stpId) == all_vlan_ranges(stpId) \ in_use_vlan_ranges(stpId)

\* the fields of the form that fail their type: a ValidationError, which
\* fastui_form turns into HTTP 422
FieldErrors(form) ==
    (IF Vlan(form.sourceVlan) THEN {} ELSE { << "sourceVlan", "out_of_range", {} >> })
    \cup
    (IF Vlan(form.destVlan) THEN {} ELSE { << "destVlan", "out_of_range", {} >> })

\* mutant: only the source VLAN is looked up in the free VLANs of its STP
free_vlan_on_source_stp(form) ==
    IF form.sourceVlan \in free_vlan_ranges(form.sourceSTP) THEN {}
    ELSE { << "sourceVlan", "invalid_vlan", free_vlan_ranges(form.sourceSTP) >> }

\* the model validator of the form: an entry per VLAN that is not free on its
\* STP, each with the free VLANs of that STP as its message
free_vlan_on_stp(form) ==
    (IF form.sourceVlan \in free_vlan_ranges(form.sourceSTP) THEN {}
     ELSE { << "sourceVlan", "invalid_vlan", free_vlan_ranges(form.sourceSTP) >> })
    \cup
    (IF form.destVlan \in free_vlan_ranges(form.destSTP) THEN {}
     ELSE { << "destVlan", "invalid_vlan", free_vlan_ranges(form.destSTP) >> })

\* HTTP 422 with the entries of the failed validation; nothing is stored
Rejected(form, detail) ==
    /\ last' = [NoLast EXCEPT !.op = "reservation_create", !.http = 422,
                              !.form = form, !.detail = detail]
    /\ UNCHANGED << res, nextUuid, jobs, sent, delivered, repairs, otherVars >>

\* POST /create with its form: the fields are validated, then the model
\* validator runs, then the handler
reservation_create(form) ==
    IF FieldErrors(form) # {} THEN Rejected(form, FieldErrors(form))
    ELSE IF free_vlan_on_stp(form) # {} THEN Rejected(form, free_vlan_on_stp(form))
    ELSE reservation_post(form)

\* the endpoints the DDS publishes while reservations are made: two client
\* ports with the same range
VlanSnapshot ==
    << Document("ok", << Port("x", "none", "1-2,4094-4096", "d1"),
                         Port("y", "none", "1-2,4094-4096", "d1") >>) >>

\* what the user enters: STP x or y (ids 1 and 2) or an id that no row has,
\* and VLANs at and around the ends of the allowed values
VlanInputs == { 1, 2, 4094, 4095, 4096 }
Forms ==
    { Form(1, v, 2, 2) : v \in VlanInputs } \cup { Form(1, 2, 2, w) : w \in VlanInputs }
        \cup { Form(2, 2, 1, 2), Form(2, 4094, 1, 4094), Form(1, 4094, 1, 2), Form(3, 2, 1, 4094) }

VlanPoll ==
    /\ nsi_poll_dds_job("ok", VlanSnapshot, "asc")
    /\ UNCHANGED << tick, booked, validated, pending >>

NextVlan ==
    \/ VlanPoll
    \/ \E form \in Forms : reservation_create(form)
    \/ JobStep
    \/ AnsweredCallback

SpecVlan == Init /\ [][NextVlan]_vars

\* ------------------------------------------------------ Verify and Fix State
\* answers of the provider to querySummarySync
VerifyAnswers ==
    { ConnectionStates("Created", "ReserveStart", "Provisioned", "true"),
      ConnectionStates("Created", "ReserveStart", "Provisioned", "false"),
      ConnectionStates("Created", "ReserveStart", "Released", "false"),
      ConnectionStates("Created", "ReserveStart", "Released", "true"),
      ConnectionStates("Created", "ReserveHeld", "Released", "false"),
      ConnectionStates("Created", "ReserveAborting", "Released", "false"),
      ConnectionStates("PassedEndTime", "ReserveStart", "Provisioned", "false"),
      ConnectionStates("Terminated", "ReserveStart", "Released", "false") }

\* the Fix State button: Verify shows it when the state of the row is not the
\* state the answer stands for, and it leads to set_state with that state
FixState(r) ==
    /\ last.op = "reservation_verify" /\ last.rid = r
    /\ res[r].state # last.should
    /\ reservation_set_state(r, last.should)

NextVerify ==
    \/ reservation_post(Unbooked)
    \/ JobStep
    \/ AnsweredCallback
    \/ \E r \in RIDS, nsi \in VerifyAnswers : reservation_verify(r, nsi)
    \/ \E r \in RIDS : FixState(r)

SpecVerify == Init /\ [][NextVerify]_vars

\* ------------------------------------------- everything that writes a row
\* the forms the user submits while all the writers of the reservation table
\* are looked at
FrameForms == { Form(1, 2, 2, 2), Form(1, 2, 2, 4094) }

\* the poll that fills the STP table
FirstPoll == polls = 0 /\ VlanPoll

NextFrame ==
    \/ FirstPoll
    \/ \E form \in FrameForms : reservation_create(form)
    \/ Gui
    \/ JobStep
    \/ AnsweredCallback

SpecFrame == Init /\ [][NextFrame]_vars

\* -------------------------------------------------- ports with more relations
\* the link port a as the DDS publishes it: not at all, with its isAlias
\* relation only, or with a second relation next to it
LinkARelations ==
    { <<>>, << Port("a", "z", "100-200", "link") >>,
      << PortWithRelations("a", "z", "100-200", "link", 2) >> }

RelationSnapshots ==
    { << Document("ok", p \o q), Document("ok", r) >> :
        p \in LinkARelations, q \in ClientX, r \in LinkZ }

PollRelations ==
    \E docs \in RelationSnapshots, order \in ReadOrders :
        nsi_poll_dds_job("ok", docs, order) /\ UNCHANGED << tick, booked, validated, pending >>

SpecRelations == Init /\ [][PollRelations]_vars

\* ------------------------------------------- creations that run side by side
\* the dependency of POST /create: the form is parsed and validated, with
\* the reads of the model validator in sessions of their own, before the
\* handler is given to a thread of the pool; a form that passes waits there
fastui_form(form) ==
    /\ form \notin validated
    /\ IF FieldErrors(form) # {} THEN Rejected(form, FieldErrors(form))
       ELSE IF free_vlan_on_stp(form) # {} THEN Rejected(form, free_vlan_on_stp(form))
       ELSE /\ validated' = validated \cup { form }
            /\ last' = [NoLast EXCEPT !.op = "fastui_form", !.form = form]
            /\ UNCHANGED << res, nextUuid, jobs, sent, delivered, repairs >>
            /\ UNCHANGED << topoVars, tick, booked, pending >>

\* the handler of a form that has passed
ValidatedPost == \E form \in validated : reservation_post(form)

NextRace ==
    \/ FirstPoll
    \/ \E form \in FrameForms : fastui_form(form)
    \/ ValidatedPost
    \/ Gui
    \/ JobStep

SpecRace == Init /\ [][NextRace]_vars

\* ------------------------------------------- an endpoint that goes away
\* GET /endpoints: the options of the STP fields of the form, every row of
\* the STP table that is no half of an SDP
endpoints == { stp[i].id : i \in { k \in DOMAIN stp : ~has_alias(stp[k]) } }

\* the topology after port y was taken out of it
GoneSnapshot ==
    << Document("ok", << Port("x", "none", "1-2,4094-4096", "d1") >>) >>

\* the first poll finds both ports, the next one finds y gone
GonePoll ==
    /\ polls < 2
    /\ nsi_poll_dds_job("ok", IF polls = 0 THEN VlanSnapshot ELSE GoneSnapshot, "asc")
    /\ UNCHANGED << tick, booked, validated, pending >>

\* the user picks both STPs from the options and posts the form
SelectAndCreate ==
    \E form \in FrameForms :
        /\ { form.sourceSTP, form.destSTP } \subseteq endpoints
        /\ reservation_create(form)

NextGone ==
    \/ GonePoll
    \/ SelectAndCreate
    \/ JobStep
    \/ AnsweredCallback

SpecGone == Init /\ [][NextGone]_vars

\* ----------------------------------------- a provider that answers once
\* the provider confirms a request it accepted with one callback that
\* carries the correlationId of the request; a follow-up request is confirmed
\* when it names a connection the provider created
AnswerOnce ==
    \E m \in pending, a \in SoapActions :
        /\ Answers(a, m.kind)
        /\ m.kind # "reserve" => m.connectionId \in AssignedConnectionIds
        /\ nsi_callback(a, m.correlationId)
        /\ pending' = pending \ { m }
        /\ UNCHANGED << delivered, topoVars, tick, booked, validated >>

\* the notifications the provider sends on its own about a connection it
\* created; they answer no request
Notification ==
    \E a \in SoapActions, key \in AssignedConnectionIds :
        /\ ByConnectionId(a)
        /\ nsi_callback(a, key)
        /\ UNCHANGED << delivered, otherVars >>

NextOnce ==
    \/ reservation_post(Unbooked)
    \/ Gui
    \/ JobStep
    \/ AnswerOnce
    \/ Notification

SpecOnce == Init /\ [][NextOnce]_vars

\* ---------------------------------------------------------------- the claims
\* e can be applied in state s
IsSource(e, s) == \E t \in States : <<e, s, t>> \in TransitionTable

\* edges lead from s to t, each an edge of the table that starts where the
\* one before it ended
RECURSIVE IsChain(_, _, _)
IsChain(s, edges, t) ==
    IF edges = <<>> THEN s = t
    ELSE /\ Head(edges) \in TransitionTable
         /\ Head(edges)[2] = s
         /\ IsChain(Head(edges)[3], Tail(edges), t)

GuiOps == { "reservation_terminate", "reservation_release", "reservation_provision" }

C2_SentAfterCommit == \A m \in sent : m.committed

\* C3: an event applied in a state that is not one of its sources changes
\* nothing: the state on the row stays, no edge is applied, no job is added
\* and no request leaves; a GUI command answers HTTP 500.
C3_RefusedChangesNothing ==
    (last.ev # "none" /\ ~IsSource(last.ev, last.from)) =>
        /\ last.to = last.db
        /\ last.edges = <<>>
        /\ last.enq = {}
        /\ last.out = {}
        /\ last.op \in GuiOps => last.http = 500

\* the user's Provision was refused
C3_Witness ==
    /\ last.op = "reservation_provision"
    /\ ~IsSource(last.ev, last.from)
    /\ last.http = 500

\* C4: a transition is applied to the state that is on the row when it is
\* stored, never to a state read before another transition was committed.
C4_NoStaleTransition == last.edges # <<>> => last.from = last.db

\* C5: a callback found by its correlationId is applied to the reservation
\* whose request carried that correlationId, and the connectionId of a
\* reserve's synchronous reply is stored on the reservation that sent it.
C5_ReplyToOriginator ==
    /\ (last.op = "nsi_callback" /\ last.matched # NoId /\ ~ByConnectionId(last.kind)) =>
           \A m \in sent : m.correlationId = last.key => m.rid = last.matched
    /\ last.op = "job_persist" =>
           \E m \in sent : /\ m.kind = "reserve"
                           /\ m.rid = last.rid
                           /\ AssignedConnectionId(m) = res[last.rid].connectionId

\* with two reservations on the table, the second one's reply was applied
C5_Witness ==
    /\ Exists(1)
    /\ last.op = "nsi_callback"
    /\ last.matched = 2
    /\ ~ByConnectionId(last.kind)
    /\ last.edges # <<>>

\* C6: no request that has left for the provider carries a correlationId
\* that an earlier request carried.
C6_FreshCorrelationId == \A m \in sent : m.fresh

\* C7: the transaction that commits the transition of a send event also
\* stores a new correlationId on the row.
C7_RotatedWithTransition ==
    (\E i \in 1..Len(last.edges) : last.edges[i][1] \in SendEvents) => last.rotated

\* the state a reservation is in after k replies of HappyReplies
HappyState(k) ==
    CASE k = 0 -> "ConnectionReserveChecking"
      [] k = 1 -> "ConnectionReserveCommitting"
      [] k = 2 -> "ConnectionProvisioning"
      [] k = 3 -> "ConnectionProvisioned"
      [] OTHER -> "ConnectionActive"

\* C8: a new reservation goes from New to ReserveChecking; while the
\* provider's replies are reserveConfirmed, reserveCommitConfirmed,
\* provisionConfirmed and dataPlaneStateChange(up) in this order, each reply
\* moves it on along New, ReserveChecking, ReserveHeld, ReserveCommitting,
\* ReserveCommitted, Provisioning, Provisioned, Active, the callback handler
\* adding the reserveCommit and the provision job itself, and after the
\* fourth reply the reservation is Active.
C8_HappyPath ==
    /\ last.op = "reservation_post" /\ last.http = 200 =>
           /\ last.edges = << <<"nsi_send_reserve", "ConnectionNew",
                                "ConnectionReserveChecking">> >>
           /\ last.enq = {"reserve"}
    /\ \A r \in RIDS :
           (Exists(r) /\ delivered[r] \in 1..4) => res[r].state = HappyState(delivered[r])
    /\ (last.op = "nsi_callback" /\ last.matched # NoId /\ delivered[last.matched] \in 1..4) =>
           /\ IsChain(HappyState(delivered[last.matched] - 1), last.edges,
                      HappyState(delivered[last.matched]))
           /\ last.enq = (CASE delivered[last.matched] = 1 -> {"reserveCommit"}
                            [] delivered[last.matched] = 2 -> {"provision"}
                            [] OTHER -> {})
           /\ Len(last.edges) = (IF delivered[last.matched] \in {1, 2} THEN 2 ELSE 1)
           /\ last.http = 200

\* the fourth reply has been applied
C8_Witness == \E r \in RIDS : delivered[r] = 4 /\ res[r].state = "ConnectionActive"

\* C9: a reserve job whose request failed, whatever the failure, ends with
\* the failure on the reservation's log and the reservation moved from
\* ReserveChecking to ReserveFailed by connection_error.
C9_ReserveFailureRecorded ==
    (/\ last.op \in JobOps
     /\ last.kind = "reserve"
     /\ last.done
     /\ last.outcome # "ok"
     /\ last.db = "ConnectionReserveChecking") =>
        /\ last.edges = << <<"connection_error", "ConnectionReserveChecking",
                             "ConnectionReserveFailed">> >>
        /\ last.to = "ConnectionReserveFailed"
        /\ last.logged = "reservation"

OtherJobKinds == { "reserveCommit", "provision", "release", "terminate" }

C11_OutOfOrderAcknowledged ==
    (/\ last.op = "nsi_callback"
     /\ last.matched # NoId
     /\ last.ev # "none"
     /\ ~IsSource(last.ev, last.from)) =>
        /\ last.to = last.db
        /\ last.enq = {}
        /\ last.logged = "reservation"
        /\ last.http = 200

\* C12: a callback with an unknown SOAPAction, without its correlationId or
\* connectionId, or with a body that is not XML changes no reservation and
\* is answered with HTTP 200.
C12_ViolationAcknowledged ==
    (last.op = "nsi_callback" /\ last.kind \in Violations \cup {"unknown"}) =>
        /\ last.edges = <<>>
        /\ last.to = last.db
        /\ last.enq = {}
        /\ last.http = 200

C14_RetrySameReservation ==
    /\ (/\ last.op = "nsi_callback" /\ last.kind = "reserveFailed"
        /\ last.matched # NoId /\ last.from = "ConnectionReserveChecking")
            => last.to = "ConnectionReserveFailed"
    /\ (last.op = "reservation_retry_reserve" /\ last.from = "ConnectionReserveFailed")
            => /\ last.to = "ConnectionReserveChecking"
               /\ last.enq = {"reserve"}

\* C15: an errorEvent with connectionId C is matched to the reservation that
\* holds C; when that reservation is Active or Provisioned it becomes Failed
\* and the text of the provider's serviceException is on the reservation's log.
C15_ErrorEventFails ==
    (last.op = "nsi_callback" /\ last.kind = "errorEvent" /\ last.matched # NoId) =>
        /\ res[last.matched].connectionId = last.key
        /\ last.from \in { "ConnectionActive", "ConnectionProvisioned" } =>
              /\ last.to = "ConnectionFailed"
              /\ res[last.matched].state = "ConnectionFailed"
              /\ last.logged = "serviceException"
              /\ last.http = 200

C17_PollReconcilesStps ==
    poll.outcome = "completed" =>
        /\ \A s \in poll.snapshot :
              /\ Cardinality({ i \in DOMAIN stp : stp[i].stpId = s }) = 1
              /\ \A i \in DOMAIN stp : stp[i].stpId = s => stp[i].active
        /\ \A s \in poll.wasActive \ poll.snapshot :
              \A i \in DOMAIN stp : stp[i].stpId = s => ~stp[i].active

\* the third poll brings back an STP that the first poll added and the second
\* poll marked inactive, and misses one that was active
C17_Witness ==
    /\ polls = 3 /\ poll.outcome = "completed"
    /\ \E s \in poll.snapshot \ poll.wasActive : stp[1].stpId = s /\ stp[1].active
    /\ \E t \in poll.wasActive \ poll.snapshot : \E i \in DOMAIN stp : stp[i].stpId = t

\* C18: a topology poll that hits a network, decompression or parse error
\* changes no STP row and no SDP row, and deactivates none.
C18_FailedPollChangesNothing ==
    poll.cause \in { "conn_error", "http_error", "not_xml", "bad_gzip", "not_wellformed" } =>
        /\ ~poll.changed
        /\ ActiveStpIds(stp) = poll.wasActive

\* C19: when one topology document of a poll is malformed, the STPs of the
\* other documents of that poll are applied.
C19_OtherDocumentsApplied ==
    (/\ Len(poll.forms) = 2
     /\ poll.published # {}
     /\ \E i \in 1..2 : /\ poll.forms[i] \in { "not_wellformed", "no_relation" }
                        /\ poll.forms[3 - i] = "ok") =>
        /\ poll.outcome = "completed"
        /\ \A s \in poll.published : \E i \in DOMAIN stp : stp[i].stpId = s /\ stp[i].active

\* C20: no two SDP rows reference the same unordered pair of STPs.
C20_NoReversedSdp ==
    \A i, j \in DOMAIN sdp :
        i # j => { sdp[i].stpAId, sdp[i].stpZId } # { sdp[j].stpAId, sdp[j].stpZId }

\* C21: a reconcile pass marks inactive exactly the SDP rows that were active
\* and whose pair of STPs is not among the pairs the pass computed: no
\* vanished SDP stays active and no other row is deactivated.
C21_VanishedSdpsInactive ==
    poll.outcome = "completed" =>
        \A i \in DOMAIN sdp :
            i \in poll.wasActiveSdp =>
                (sdp[i].active <=> Sorted(sdp[i].stpAId, sdp[i].stpZId) \in poll.connected)

\* C22: after a poll that completed, every STP row whose stpId is in the
\* snapshot carries the values the snapshot has for it: ports, aliases,
\* vlanRange, description and active.
C22_RowsCarrySnapshot ==
    poll.outcome = "completed" =>
        \A i \in DOMAIN stp :
            stp[i].stpId \in poll.snapshot =>
                \E k \in DOMAIN poll.stps : [poll.stps[k] EXCEPT !.id = stp[i].id] = stp[i]

\* C23: the poll never runs concurrently with itself: at most one instance is
\* running, and a tick that comes while one is running is dropped, not
\* queued: every poll that ran or runs was started by a tick that was not
\* skipped
C23_PollNeverOverlaps ==
    /\ tick.running <= 1
    /\ polls + tick.running = tick.ticks - tick.skipped

\* a tick was dropped while an instance of the poll was running, after an
\* earlier poll had ended
C23_Witness == tick.skipped > 0 /\ tick.running = 1 /\ polls > 0

\* C24: at most one job is in flight for a kind of job and a reservation,
\* however often that kind was enqueued for the reservation
C24_OneJobPerKindAndReservation ==
    \A i, j \in JIDS :
        (i # j /\ jobs[i].pc # "idle" /\ jobs[j].pc # "idle")
            => << jobs[i].kind, jobs[i].rid >> # << jobs[j].kind, jobs[j].rid >>

\* the VLANs of the range of the STP with id s
RangeOf(s) == UNION { VlanRanges(stp[i].vlanRange) : i \in { k \in DOMAIN stp : stp[k].id = s } }

\* the states of section 4.5 that reserve resources
ActiveStates ==
    { "ConnectionReserveChecking", "ConnectionReserveHeld", "ConnectionReserveCommitting",
      "ConnectionReserveCommitted", "ConnectionProvisioning", "ConnectionProvisioned",
      "ConnectionActive", "ConnectionFailed", "ConnectionTerminating",
      "ConnectionReleasing", "ConnectionReleased", "ConnectionReserveAborting",
      "ConnectionReserveAborted", "ConnectionReprovisionTerminating",
      "ConnectionReprovisionTerminated" }

\* the VLANs that reservations other than r in an active state hold on STP s
HeldBut(s, r) ==
    { booked[q].sourceVlan : q \in { k \in RIDS \ { r } : res[k].state \in ActiveStates
                                                          /\ booked[k].sourceSTP = s } }
    \cup { booked[q].destVlan : q \in { k \in RIDS \ { r } : res[k].state \in ActiveStates
                                                             /\ booked[k].destSTP = s } }

\* the free VLANs of STP s, the reservation r left out
FreeBut(s, r) == RangeOf(s) \ HeldBut(s, r)

\* the last operation stored a new reservation
Created == last.op = "reservation_post" /\ last.http = 200

\* the last operation was a creation that the validation of the form refused
Refused == last.op = "reservation_create"

C30_VlanBounds ==
    /\ \A r \in RIDS :
          Exists(r) => /\ booked[r].sourceVlan \notin { 1, 4095, 4096 }
                       /\ booked[r].destVlan \notin { 1, 4095, 4096 }
    /\ Refused =>
          /\ (<< "sourceVlan", "out_of_range", {} >> \in last.detail)
                <=> last.form.sourceVlan \notin 2..4094
          /\ (<< "destVlan", "out_of_range", {} >> \in last.detail)
                <=> last.form.destVlan \notin 2..4094

\* reservations with VLAN 2 and with VLAN 4094 were stored, each as source
\* and as destination
C30_Witness ==
    /\ \E r \in RIDS : Exists(r) /\ booked[r].sourceVlan = 2 /\ booked[r].destVlan = 2
    /\ \E r \in RIDS : Exists(r) /\ booked[r].sourceVlan = 4094 /\ booked[r].destVlan = 4094

\* C27: when Verify finds that the state of the row is not the state the
\* answer of the provider stands for, the repair it offers stores that state:
\* a Verify with the same answer then reports a match
C27_RepairMatchesProvider ==
    [][ (last.op = "reservation_verify" /\ last'.op = "reservation_set_state")
            => res'[last.rid].state = to_aura_connection_state(last.nsi) ]_vars

TerminalStates == { "ConnectionTerminated", "ConnectionDeleted" }

\* a step creates row r: by POST /create, in ConnectionNew, from where the
\* first transition is fired in the same transaction
CreatedInNew(r) ==
    (~Exists(r) /\ res'[r] # res[r]) =>
        /\ last'.op = "reservation_post" /\ last'.rid = r
        /\ last'.from = "ConnectionNew"
        /\ IsChain("ConnectionNew", last'.edges, res'[r].state)

\* a step leaves the endpoints of row r as they are and does not delete the
\* row while its state is not terminal
RowKept(r) ==
    Exists(r) =>
        /\ booked'[r] = booked[r]
        /\ res[r].state \notin TerminalStates => res'[r].state # "none"

\* a step changes the connectionId of row r only in the reserve job, to the
\* connectionId the provider returned
ConnectionIdAssigned(r) ==
    (Exists(r) /\ res'[r].connectionId # res[r].connectionId) =>
        /\ last'.op = "job_persist" /\ last'.kind = "reserve" /\ last'.rid = r
        /\ \E j \in JIDS : jobs[j].pc = "persist" /\ jobs[j].rid = r
                           /\ res'[r].connectionId = jobs[j].connectionId

\* a step changes the state of row r by transitions of the state machine
StateByTransitions(r) ==
    (Exists(r) /\ res'[r].state # res[r].state) =>
        /\ last'.edges # <<>>
        /\ IsChain(last'.from, last'.edges, res'[r].state)

\* C28 as it is written: a reservation is created in ConnectionNew and is
\* afterwards changed only by transitions of the state machine, by the
\* connectionId the provider assigns and by the rotation of the
\* correlationId; its endpoints never change and its row is not deleted while
\* its state is not terminal
C28_OnlyTransitionsAndConnectionId ==
    [][ \A r \in RIDS : /\ CreatedInNew(r)
                        /\ RowKept(r)
                        /\ ConnectionIdAssigned(r)
                        /\ StateByTransitions(r) ]_vars

\* C28, amended: the same, but for the Fix State repair, which fires no
\* transition and stores the declared state it was given
C28_FrameButRepair ==
    [][ \A r \in RIDS : /\ CreatedInNew(r)
                        /\ RowKept(r)
                        /\ ConnectionIdAssigned(r)
                        /\ \/ StateByTransitions(r)
                           \/ /\ last'.op = "reservation_set_state" /\ last'.rid = r
                              /\ last'.edges = <<>>
                              /\ res'[r].state = last'.to /\ last'.to \in States ]_vars

\* the repair has changed the state of a reservation with endpoints whose
\* connectionId the provider had assigned
C28_Witness ==
    /\ last.op = "reservation_set_state" /\ last.http = 200 /\ last.from # last.to
    /\ res[last.rid].connectionId # NoId
    /\ booked[last.rid] # Unbooked

\* C29: a poll whose documents are well formed and hold a port with a list
\* of Relation elements completes, and every BidirectionalPort of the
\* documents has an active row in the STP table
C29_RelationListYieldsStps ==
    (poll.lists /\ \A i \in DOMAIN poll.forms : poll.forms[i] = "ok") =>
        /\ poll.outcome = "completed"
        /\ poll.published \subseteq ActiveStpIds(stp)

\* the VLANs reservation r holds on STP s: its source VLAN when it starts
\* there, its destination VLAN when it ends there
HeldBy(r, s) ==
    (IF booked[r].sourceSTP = s THEN { booked[r].sourceVlan } ELSE {})
        \cup (IF booked[r].destSTP = s THEN { booked[r].destVlan } ELSE {})

\* C31: no two reservations in active states use the same VLAN on the same
\* STP, whatever the interleaving of creations, transitions and repairs
C31_NoDoubleBooking ==
    \A r, q \in RIDS :
        (r # q /\ res[r].state \in ActiveStates /\ res[q].state \in ActiveStates)
            => \A s \in 1..3 : HeldBy(r, s) \cap HeldBy(q, s) = {}

\* the reserve requests of reservation r that the provider accepted
ReserveRequests(r) == { m \in sent : m.kind = "reserve" /\ m.rid = r }

\* C32: every reserveCommit, provision, release or terminate request carries
\* the connectionId the provider assigned to its reservation
C32_FollowUpCarriesConnectionId ==
    \A m \in sent :
        m.kind # "reserve" =>
            \E q \in ReserveRequests(m.rid) : m.connectionId = AssignedConnectionId(q)

\* the events the commands of the reservation page fire
GuiEvents == { "nsi_send_terminate", "nsi_send_release", "nsi_send_provision" }

FollowUpKinds == { "reserveCommit", "provision", "release", "terminate" }

\* C33: after the send of a reserveCommit, provision, release or terminate
\* request has failed, a command of the reservation page applies in the
\* state the reservation is left in
C33_NotStuckAfterFailedSend ==
    (last.op = "job_send" /\ last.kind \in FollowUpKinds /\ last.outcome # "ok") =>
        \E e \in GuiEvents : IsSource(e, res[last.rid].state)
\* the requests about reservation r that the provider accepted and will
\* confirm with a callback, and has not confirmed yet
Outstanding(r) ==
    { m \in pending : /\ m.rid = r
                      /\ m.kind # "reserve" => m.connectionId \in AssignedConnectionIds }

\* C34: at any time a reservation has at most one outbound request that
\* awaits its confirmation
C34_OneOutstandingRequest ==
    \A r \in RIDS : Cardinality(Outstanding(r)) <= 1

\* C35: a callback that could be read and whose correlationId or
\* connectionId is on no reservation changes no reservation, adds no job and
\* is answered with the acknowledgement
C35_UnmatchedAcknowledged ==
    (last.op = "nsi_callback" /\ last.matched = NoId /\ last.kind \notin Violations) =>
        /\ last.edges = <<>>
        /\ last.enq = {}
        /\ last.http = 200

\* what can still move reservation r on: a job of r in the scheduler, a
\* command of its page whose event its state allows, a confirmation of an
\* outstanding request or a notification about its connection that the
\* handler takes in its state, or a repair, which Verify offers when the
\* provider knows the connection of r
HasJob(r) == \E j \in JIDS : jobs[j].pc # "idle" /\ jobs[j].rid = r
Takes(a, s) == FireAll(CallbackEvents(a), s).to # s
MovesOn(r) ==
    \/ HasJob(r)
    \/ \E e \in GuiEvents : IsSource(e, res[r].state)
    \/ \E m \in Outstanding(r), a \in SoapActions :
          /\ m.correlationId = res[r].correlationId
          /\ Answers(a, m.kind)
          /\ Takes(a, res[r].state)
    \/ /\ res[r].connectionId \in AssignedConnectionIds
       /\ \E a \in SoapActions : ByConnectionId(a) /\ Takes(a, res[r].state)
    \/ res[r].connectionId \in AssignedConnectionIds

\* C36: a reservation that is not in a final state can be brought to
\* Terminated by GUI commands and provider callbacks; in particular it is
\* never in a state that no command, job or callback can change any more
C36_CanBeBroughtToAnEnd ==
    \A r \in RIDS :
        (Exists(r) /\ res[r].state \notin TerminalStates) => MovesOn(r)

\* the events that the handlers of the pages, the jobs and the callback
\* handler fire
FiredEvents ==
    { "nsi_send_reserve", "connection_error" } \cup GuiEvents
        \cup UNION { { CallbackEvents(a)[i] : i \in 1..Len(CallbackEvents(a)) } :
                        a \in SoapActions }

\* every answer the provider can give to the query of Verify, and the states
\* for which Verify then shows the Fix State button
NsiConnectionStates ==
    { ConnectionStates(l, v, p, a) :
        l \in { "Created", "Failed", "PassedEndTime", "Terminating", "Terminated" },
        v \in { "ReserveStart", "ReserveChecking", "ReserveFailed", "ReserveAborting",
                "ReserveHeld", "ReserveCommitting", "ReserveTimeout" },
        p \in { "Released", "Provisioning", "Provisioned", "Releasing" },
        a \in { "true", "false" } }
FixStateTargets == { to_aura_connection_state(n) : n \in NsiConnectionStates } \cap States

\* the states a reservation can be stored in, whatever the order of the
\* commands, jobs, callbacks and offered repairs
RECURSIVE ReachableFrom(_)
ReachableFrom(S) ==
    LET T == S \cup FixStateTargets
               \cup { Fire(e, s).to : e \in FiredEvents, s \in S }
    IN IF T = S THEN S ELSE ReachableFrom(T)

\* the states the reservations are in, with the state they start in
StatesInUse == { "ConnectionNew" } \cup { res[r].state : r \in { q \in RIDS : Exists(q) } }

\* C37: every state the machine declares can be reached from ConnectionNew,
\* and from wherever the reservations are, by what the handlers, jobs and
\* callbacks do
C37_NoDeadState ==
    FsmStates \subseteq ReachableFrom(StatesInUse)

\* the ids of the STPs that the last poll found in the topology
ActiveIds == { stp[i].id : i \in { k \in DOMAIN stp : stp[k].active } }

\* C38: a step that stores a new reservation stores it against a source and
\* a destination STP that are active when the step is taken
C38_OnlyActiveStps ==
    [][ (Created' /\ res'[last'.rid] # res[last'.rid]) =>
            { booked'[last'.rid].sourceSTP, booked'[last'.rid].destSTP } \subseteq ActiveIds
      ]_vars

====
